---------------------------- MODULE Spec2Model ----------------------------
(***************************************************************************)
(* A model of dht11.c, the stand-alone DHT11 driver: the edge interrupt    *)
(* handler doirq, the polling thread dothread, the result store (valid,    *)
(* humidity, temperature, mutex) and the device read doread.               *)
(*                                                                         *)
(* The specifications share the same state and the same translation of     *)
(* the code:                                                               *)
(*   Spec      the thread, with the handler run to completion on every     *)
(*             edge (the handler runs with local interrupts off) and the   *)
(*             sensor's response during msleep(25) delivered as one burst  *)
(*             of edges;                                                   *)
(*   SpecLive  the same with fewer frames and with fair scheduling;        *)
(*   SpecTick  SpecLive's steps and a stop request at any moment;          *)
(*   SpecRace  the thread and the handler on two processors: the sensor    *)
(*             sends edge by edge and every access of the handler to the   *)
(*             volatile `state` is a step of its own;                      *)
(*   SpecStop  SpecRace's steps and a stop request at any moment;          *)
(*   SpecEdges the first cycle of SpecRace with interrupts at which the    *)
(*             pin does not read the level of an edge;                     *)
(*   SpecRead  the thread and a reader of /dev/dht11;                      *)
(*   SpecInit  doinit from the loading of the module.                      *)
(*                                                                         *)
(* Time: the clock read by ktime_get_ns() is kept relative to the latest   *)
(* trigger, in microseconds; the handler only uses differences of two      *)
(* readings taken within one response.  A handler invocation lasts         *)
(* microseconds and cannot be preempted, so it never spans msleep(100),    *)
(* mdelay(18) or udelay(40): those steps wait for the handler to return.   *)
(***************************************************************************)
EXTENDS Integers, Sequences, FiniteSets, TLC

(***************************************************************************)
(* Bounds of the model.                                                    *)
(***************************************************************************)
\* sample frames the sensor may send in Spec
NumFrames == 5
\* sample frames the sensor may send in SpecRace
NumRaceFrames == 2
\* acquisition cycles run in SpecRace
MaxCycles == 2
\* edges the sensor may still send after the driver's wait has ended
MaxLateEdges == 2
\* edges the sensor may already have sent when the driver arms the decoder
MaxEarlyEdges == 1
\* sample frames the sensor may send in SpecRead
NumReadFrames == 2
\* sample frames the sensor may send in SpecLive
NumLiveFrames == 2
\* sample frames the sensor may send in SpecStop
NumStopFrames == 1
\* interrupts at which the pin reads its former level, per cycle, in SpecEdges
MaxGlitches == 2
\* the time such an interrupt comes after the edge before it, in microseconds
GlitchGap == 10
\* consecutive failures counted by the history variable failsSince
MaxFails == 6

(***************************************************************************)
(* Program constants.                                                      *)
(***************************************************************************)
\* forty bits per response
NBITS == 40
\* valid = 5 after a success
MAXVALID == 5
\* await = 2000/100
AWAIT == 20
\* #define MAXS 32
MAXS == 32
\* -EINVAL
EINVAL == 22
\* the response's timing, in microseconds
AckLow == 80
AckHigh == 80
BitLow == 50
ZeroHigh == 28
OneHigh == 70

Byte == 0..255

(***************************************************************************)
(* The sensor's sample frames.  1 is the spec's scenario, 2 has a sum that *)
(* overflows 8 bits, 3 a wrong checksum, 4 and 5 a fraction byte above 9   *)
(* with a right checksum; further frames follow one pattern.               *)
(***************************************************************************)
Frame(i) ==
    CASE i = 1 -> [k \in 0..4 |-> <<65, 2, 23, 3, 93>>[k + 1]]
      [] i = 2 -> [k \in 0..4 |-> <<255, 9, 255, 9, 16>>[k + 1]]
      [] i = 3 -> [k \in 0..4 |-> <<65, 2, 23, 3, 94>>[k + 1]]
      [] i = 4 -> [k \in 0..4 |-> <<40, 10, 20, 3, 73>>[k + 1]]
      [] i = 5 -> [k \in 0..4 |-> <<40, 3, 20, 12, 75>>[k + 1]]
      [] OTHER -> LET a == (37 * i) % 256
                      b == i % 10
                      c == (91 * i) % 256
                      d == (3 * i) % 10
                      s == (a + b + c + d + (i % 2)) % 256
                  IN  [k \in 0..4 |-> <<a, b, c, d, s>>[k + 1]]

RECURSIVE Pow2(_)
Pow2(n) == IF n = 0 THEN 1 ELSE 2 * Pow2(n - 1)

\* bit j (0 = first sent) of frame i: the most significant bit of byte 0 first
FrameBit(i, j) == (Frame(i)[j \div 8] \div Pow2(7 - (j % 8))) % 2

(***************************************************************************)
(* The response's edges, numbered from 0:                                  *)
(*   0        falling, the 80 us ack low starts                            *)
(*   1        rising, the 80 us ack high starts                            *)
(*   2        falling, the first 50 us low starts                          *)
(*   3 + 2j   rising, bit j's high pulse starts                            *)
(*   4 + 2j   falling, bit j's high pulse ends (28 us: 0, 70 us: 1)        *)
(*   83       rising, the bus is released after the last 50 us low         *)
(***************************************************************************)
LastEdge == 3 + 2 * NBITS

EdgeLevel(e) == e % 2

\* the time from edge e - 1 to edge e of frame i
EdgeGap(i, e) ==
    IF e = 1 THEN AckLow
    ELSE IF e = 2 THEN AckHigh
    ELSE IF e % 2 = 1 THEN BitLow
    ELSE IF FrameBit(i, (e - 4) \div 2) = 1 THEN OneHigh ELSE ZeroHigh

\* the clock at edge e of frame i, from the clock t at the edge before it
EdgeTime(i, e, t) == IF e = 0 THEN 0 ELSE t + EdgeGap(i, e)

(***************************************************************************)
(* State.                                                                  *)
(***************************************************************************)
VARIABLES
    \* doirq: the volatile globals and the handler's statics
    state, data, edge, bit, nominal,
    \* the pin, the clock, the interrupt line and the handler's position
    pin, pinDir, clock, irqPending, irqpc, irqNow, irqCase,
    \* the sensor: the frame it sends, the edges sent, those sent after the wait,
    \* and the interrupts raised at which the pin reads the level it had before
    sframe, spos, late, glitches,
    \* dothread: its position and locals, and kthread_should_stop()
    tpc, await, final, stopReq,
    \* the result store
    valid, humidity, temperature, mutex,
    \* doopen/doread/doclose on one open file
    rpc, opened, ofs, priv, rlen, rn, ret, rbuf,
    \* history variables, read by the properties only (rall: the bytes delivered
    \* by the reads on the open file so far)
    cycles, checked, outcome, prevStore, failsSince, everOk, published,
    armPos, dataAtArm, bitsSinceArm, doneSinceArm, capBits, capDone,
    rseen, rpub, rall,
    \* history: the msleep(100) ticks since the last cycle began (or since the
    \* thread started) and the tests of kthread_should_stop() since the last tick
    ticks, tests,
    \* doinit: its position, its return value, the step that failed, the
    \* resources acquired and released, in order, and the value of `thread`
    ipc, iret, ifail, acq, freed, thread

isrVars == <<state, data, edge, bit, nominal>>
lineVars == <<pin, pinDir, clock, irqPending, irqpc, irqNow, irqCase>>
sensorVars == <<sframe, spos, late, glitches>>
threadVars == <<tpc, await, final, stopReq>>
storeVars == <<valid, humidity, temperature, mutex>>
readerVars == <<rpc, opened, ofs, priv, rlen, rn, ret, rbuf>>
cycleHist == <<cycles, checked, outcome, prevStore, failsSince, everOk, published>>
armHist == <<armPos, dataAtArm, bitsSinceArm, doneSinceArm, capBits, capDone>>
readHist == <<rseen, rpub, rall>>
tickHist == <<ticks, tests>>
initVars == <<ipc, iret, ifail, acq, freed, thread>>
vars == <<isrVars, lineVars, sensorVars, threadVars, storeVars, readerVars,
          cycleHist, armHist, readHist, tickHist, initVars>>

(***************************************************************************)
(* doirq.                                                                  *)
(***************************************************************************)
\* the handler's view of the decoder
Isr == [state |-> state, data |-> data, edge |-> edge, bit |-> bit,
        nominal |-> nominal]

\* faulty variant: the bit enters at the top, least significant bit first
ShiftInLsbFirst(d, b) == (d \div 2) + (128 * b)

\* (u8)((d << 1) | b)
ShiftIn(d, b) == ((d * 2) % 256) + b

\* (now - edge) > nominal
PulseBit(elapsed, nom) == IF elapsed > nom THEN 1 ELSE 0

\* faulty variant: the frame ends one bit late
FrameDoneLate(nb) == nb > NBITS

\* ++bit >= 40
FrameDone(nb) == nb >= NBITS

\* the body of switch(state), entered with the value c read by the switch, the
\* pin level read by gpio_get_value() and now = t
IrqCase(c, s, level, t) ==
    CASE c = 1 -> IF level = 1 THEN [s EXCEPT !.state = 2] ELSE s
      [] c = 2 -> [s EXCEPT !.edge = t, !.bit = 0, !.state = 3]
      [] c = 3 ->
           IF level = 1
           THEN [s EXCEPT !.nominal = IF s.bit = 0 THEN t - s.edge ELSE @,
                          !.edge = t]
           ELSE LET b == PulseBit(t - s.edge, s.nominal)
                    k == s.bit \div 8
                    nb == s.bit + 1
                IN  [s EXCEPT !.data[k] = ShiftIn(s.data[k], b),
                              !.bit = nb,
                              !.state = IF FrameDone(nb) THEN 0 ELSE @]
      [] OTHER -> s

\* faulty variant: the test of state is missing, Idle is served as state 1
IrqHandlerNoTest(s, level, t) ==
    IrqCase(IF s.state = 0 THEN 1 ELSE s.state, s, level, t)

\* one whole invocation, nothing else running in between
IrqHandler(s, level, t) ==
    IF s.state # 0 THEN IrqCase(s.state, s, level, t) ELSE s

\* whether the invocation appends a data bit, and whether it ends the frame
WritesBit(c, level) == c = 3 /\ level = 0
EndsFrame(c, s, level) == WritesBit(c, level) /\ FrameDone(s.bit + 1)

\* the handler run on edge e of frame i, from the decoder r.isr at clock r.t;
\* n counts the data bits appended, fin tells whether the handler set state = 0
RunEdge(r, i, e) ==
    LET c == r.isr.state
        lv == EdgeLevel(e)
        t == EdgeTime(i, e, r.t)
    IN  [isr |-> IrqHandler(r.isr, lv, t),
         t |-> t,
         n |-> r.n + (IF WritesBit(c, lv) THEN 1 ELSE 0),
         fin |-> r.fin \/ EndsFrame(c, r.isr, lv)]

\* the handler run on edges e..last of frame i, one after the other (r is
\* bound as x so that it is evaluated once, before the edges that follow)
RECURSIVE RunEdges(_, _, _, _)
RunEdges(r, i, e, last) ==
    CHOOSE y \in
        { IF e > last THEN x
          ELSE IF e = last THEN RunEdge(x, i, e)
          ELSE RunEdges(RunEdges(x, i, e, (e + last) \div 2),
                        i, ((e + last) \div 2) + 1, last) : x \in {r} } : TRUE

(***************************************************************************)
(* dothread: the pure parts.                                               *)
(***************************************************************************)
\* a & b on non-negative integers
RECURSIVE BitAnd(_, _)
BitAnd(a, b) ==
    IF a = 0 \/ b = 0 THEN 0
    ELSE (a % 2) * (b % 2) + 2 * BitAnd(a \div 2, b \div 2)

\* faulty variant: the sum is not cut to 8 bits
FrameOkNoMask(fin, d) ==
    /\ fin = 0
    /\ d[1] <= 9
    /\ d[3] <= 9
    /\ d[0] + d[1] + d[2] + d[3] = d[4]

\* faulty variant: the terminal state is not tested
FrameOkNoFinal(fin, d) ==
    /\ d[1] <= 9
    /\ d[3] <= 9
    /\ BitAnd(d[0] + d[1] + d[2] + d[3], 255) = d[4]

\* the condition of the if at lines 106-109
FrameOk(fin, d) ==
    /\ fin = 0
    /\ d[1] <= 9
    /\ d[3] <= 9
    /\ BitAnd(d[0] + d[1] + d[2] + d[3], 255) = d[4]

\* faulty variant: the fraction digit is dropped
HumidityOfInteger(d) == d[0] * 10

\* (data[0] * 10) + data[1]
HumidityOf(d) == (d[0] * 10) + d[1]

\* faulty variant: the humidity bytes are used again
TemperatureOfHumidity(d) == (d[0] * 10) + d[1]

\* (data[2] * 10) + data[3]
TemperatureOf(d) == (d[2] * 10) + d[3]

\* faulty variant: decrement without the test
DecValidNoFloor(v) == v - 1

\* faulty variant: no decay
DecValidNever(v) == v

\* if (valid) valid--;
DecValid(v) == IF v # 0 THEN v - 1 ELSE v

\* faulty variant: the cycle waits for one tick more
SpinningOneMore(a) == a >= 0

\* line 90: --await > 0, the thread goes back to the top of the loop
Spinning(a) == a > 0

Zeroes == [k \in 0..4 |-> 0]
Store == [valid |-> valid, humidity |-> humidity, temperature |-> temperature]

\* history of a read: whether it was entered at *ofs = 0, and the store then
NoneSeen == [at0 |-> FALSE, valid |-> 0, humidity |-> 0, temperature |-> 0]
SeenNow == [at0 |-> TRUE, valid |-> valid, humidity |-> humidity,
            temperature |-> temperature]

(***************************************************************************)
(* The state once doinit has returned 0: the globals are zero, the pin is  *)
(* an input pulled up, the thread is about to test kthread_should_stop()   *)
(* and /dev/dht11 is not open.                                             *)
(***************************************************************************)
Loaded ==
    /\ ipc = "returned" /\ iret = 0 /\ ifail = "none"
    /\ acq = <<"gpio", "misc", "irq", "thread">> /\ freed = <<>>
    /\ thread = "running"

Globals ==
    /\ state = 0 /\ data = Zeroes /\ edge = 0 /\ bit = 0 /\ nominal = 0
    /\ pin = 1 /\ pinDir = "in" /\ clock = 0
    /\ irqPending = FALSE /\ irqpc = "idle" /\ irqNow = 0 /\ irqCase = 0
    /\ sframe = 0 /\ spos = 0 /\ late = 0 /\ glitches = 0
    /\ tpc = "loop" /\ await = 0 /\ final = 0 /\ stopReq = FALSE
    /\ valid = 0 /\ humidity = 0 /\ temperature = 0 /\ mutex = "none"
    /\ rpc = "idle" /\ opened = FALSE /\ ofs = 0 /\ priv = <<>> /\ rlen = 0
    /\ rn = 0 /\ ret = 0 /\ rbuf = <<>>
    /\ cycles = 0 /\ checked = Zeroes /\ outcome = "none"
    /\ prevStore = [valid |-> 0, humidity |-> 0, temperature |-> 0]
    /\ failsSince = 0 /\ everOk = FALSE
    /\ published = [humidity |-> 0, temperature |-> 0]
    /\ armPos = 0 /\ dataAtArm = Zeroes /\ bitsSinceArm = 0
    /\ doneSinceArm = FALSE /\ capBits = 0 /\ capDone = FALSE
    /\ rseen = NoneSeen
    /\ rpub = [humidity |-> 0, temperature |-> 0]
    /\ rall = <<>>
    /\ ticks = 0 /\ tests = 0

Init == Globals /\ Loaded

HandlerIdle == irqpc = "idle"
LineQuiet == irqpc = "idle" /\ ~irqPending

(***************************************************************************)
(* dothread, one action per statement that touches shared state or waits.  *)
(***************************************************************************)
\* line 87: while (!kthread_should_stop())
ThreadLoop ==
    /\ tpc = "loop"
    /\ tpc' = IF stopReq THEN "done" ELSE "sleep"
    /\ UNCHANGED <<await, final, stopReq>>
    /\ UNCHANGED <<isrVars, lineVars, sensorVars, storeVars, readerVars,
                   cycleHist, armHist, readHist>>
    /\ tests' = IF tests < 2 THEN tests + 1 ELSE tests
    /\ UNCHANGED <<initVars, ticks>>

\* lines 89-90: msleep(100); if (--await > 0) continue;  A response lasts
\* 5 ms: when msleep(100) returns the handler has returned and the sensor is
\* idle again.
ThreadSleep ==
    /\ tpc = "sleep"
    /\ LineQuiet
    /\ await' = await - 1
    /\ tpc' = IF Spinning(await - 1) THEN "loop" ELSE "prime"
    /\ sframe' = 0 /\ spos' = 0 /\ late' = 0 /\ glitches' = 0 /\ clock' = 0
    /\ UNCHANGED <<final, stopReq, pin, pinDir, irqPending, irqpc, irqNow, irqCase>>
    /\ UNCHANGED <<isrVars, storeVars, readerVars, cycleHist, armHist, readHist>>
    /\ ticks' = IF ticks <= AWAIT THEN ticks + 1 ELSE ticks
    /\ tests' = 0
    /\ UNCHANGED initVars

\* line 93: state = 0
ThreadPrime ==
    /\ tpc = "prime"
    /\ state' = 0
    /\ tpc' = "trigLow"
    /\ cycles' = IF cycles < MaxCycles THEN cycles + 1 ELSE cycles
    /\ prevStore' = Store
    /\ outcome' = "none"
    /\ UNCHANGED <<data, edge, bit, nominal, await, final, stopReq>>
    /\ UNCHANGED <<checked, failsSince, everOk, published>>
    /\ UNCHANGED <<lineVars, sensorVars, storeVars, readerVars, armHist, readHist>>
    /\ ticks' = 0
    /\ UNCHANGED <<initVars, tests>>

\* lines 96-97: gpio_direction_output(gpio, 0); mdelay(18)
ThreadTrigLow ==
    /\ tpc = "trigLow"
    /\ pinDir' = "out"
    /\ pin' = 0
    /\ irqPending' = (irqPending \/ pin # 0)
    /\ tpc' = "trigRelease"
    /\ UNCHANGED <<clock, irqpc, irqNow, irqCase, await, final, stopReq>>
    /\ UNCHANGED <<isrVars, sensorVars, storeVars, readerVars,
                   cycleHist, armHist, readHist>>
    /\ UNCHANGED <<initVars, tickHist>>

\* lines 98-99: gpio_direction_input(gpio); udelay(40).  The pull-up raises
\* the line; the sensor has seen the trigger and may answer.
ThreadTrigRelease ==
    /\ tpc = "trigRelease"
    /\ LineQuiet
    /\ pinDir' = "in"
    /\ pin' = 1
    /\ irqPending' = TRUE
    /\ clock' = 0
    /\ sframe' = 0 /\ spos' = 0 /\ late' = 0 /\ glitches' = 0
    /\ tpc' = "arm"
    /\ UNCHANGED <<irqpc, irqNow, irqCase, await, final, stopReq>>
    /\ UNCHANGED <<isrVars, storeVars, readerVars, cycleHist, armHist, readHist>>
    /\ UNCHANGED <<initVars, tickHist>>

\* line 101: state = 1.  The interrupt of the release's own rising edge was
\* taken during udelay(40); one latched now is the sensor's.
ThreadArm ==
    /\ tpc = "arm"
    /\ HandlerIdle
    /\ spos = 0 => ~irqPending
    /\ state' = 1
    /\ tpc' = "wait"
    /\ armPos' = spos
    /\ dataAtArm' = data
    /\ bitsSinceArm' = 0
    /\ doneSinceArm' = FALSE
    /\ UNCHANGED <<data, edge, bit, nominal, await, final, stopReq, capBits, capDone>>
    /\ UNCHANGED <<lineVars, sensorVars, storeVars, readerVars, cycleHist, readHist>>
    /\ UNCHANGED <<initVars, tickHist>>

\* line 103: final = state
ThreadCapture ==
    /\ tpc = "capture"
    /\ final' = state
    /\ tpc' = "disarm"
    /\ capBits' = bitsSinceArm
    /\ capDone' = doneSinceArm
    /\ UNCHANGED <<await, stopReq, armPos, dataAtArm, bitsSinceArm, doneSinceArm>>
    /\ UNCHANGED <<isrVars, lineVars, sensorVars, storeVars, readerVars,
                   cycleHist, readHist>>
    /\ UNCHANGED <<initVars, tickHist>>

\* line 104: state = 0
ThreadDisarm ==
    /\ tpc = "disarm"
    /\ state' = 0
    /\ tpc' = "validate"
    /\ UNCHANGED <<data, edge, bit, nominal, await, final, stopReq>>
    /\ UNCHANGED <<lineVars, sensorVars, storeVars, readerVars,
                   cycleHist, armHist, readHist>>
    /\ UNCHANGED <<initVars, tickHist>>

\* lines 106-109: the test of final and of the frame
ThreadValidate ==
    /\ tpc = "validate"
    /\ tpc' = IF FrameOk(final, data) THEN "lock" ELSE "fail"
    /\ checked' = data
    /\ UNCHANGED <<await, final, stopReq>>
    /\ UNCHANGED <<cycles, outcome, prevStore, failsSince, everOk, published>>
    /\ UNCHANGED <<isrVars, lineVars, sensorVars, storeVars, readerVars,
                   armHist, readHist>>
    /\ UNCHANGED <<initVars, tickHist>>

\* line 111: mutex_lock(&mutex)
ThreadLock ==
    /\ tpc = "lock"
    /\ mutex = "none"
    /\ mutex' = "thread"
    /\ tpc' = "publish"
    /\ UNCHANGED <<valid, humidity, temperature, await, final, stopReq>>
    /\ UNCHANGED <<isrVars, lineVars, sensorVars, readerVars,
                   cycleHist, armHist, readHist>>
    /\ UNCHANGED <<initVars, tickHist>>

\* lines 112-114: valid = 5; humidity = ...; temperature = ...
ThreadPublish ==
    /\ tpc = "publish"
    /\ valid' = MAXVALID
    /\ humidity' = HumidityOf(data)
    /\ temperature' = TemperatureOf(data)
    /\ tpc' = "unlock"
    /\ published' = [humidity |-> (10 * checked[0]) + checked[1],
                     temperature |-> (10 * checked[2]) + checked[3]]
    /\ failsSince' = 0
    /\ everOk' = TRUE
    /\ UNCHANGED <<mutex, await, final, stopReq>>
    /\ UNCHANGED <<cycles, checked, outcome, prevStore>>
    /\ UNCHANGED <<isrVars, lineVars, sensorVars, readerVars, armHist, readHist>>
    /\ UNCHANGED <<initVars, tickHist>>

\* faulty variant: the success branch leaves without unlocking
ThreadUnlockKeeps ==
    /\ tpc = "unlock"
    /\ tpc' = "setAwait"
    /\ outcome' = "success"
    /\ UNCHANGED <<valid, humidity, temperature, mutex, await, final, stopReq>>
    /\ UNCHANGED <<cycles, checked, prevStore, failsSince, everOk, published>>
    /\ UNCHANGED <<isrVars, lineVars, sensorVars, readerVars, armHist, readHist>>
    /\ UNCHANGED <<initVars, tickHist>>

\* line 115: mutex_unlock(&mutex)
ThreadUnlock ==
    /\ tpc = "unlock"
    /\ mutex' = "none"
    /\ tpc' = "setAwait"
    /\ outcome' = "success"
    /\ UNCHANGED <<valid, humidity, temperature, await, final, stopReq>>
    /\ UNCHANGED <<cycles, checked, prevStore, failsSince, everOk, published>>
    /\ UNCHANGED <<isrVars, lineVars, sensorVars, readerVars, armHist, readHist>>
    /\ UNCHANGED <<initVars, tickHist>>

\* faulty variant: the thread stops in the failure branch
ThreadFailHangs ==
    /\ tpc = "fail"
    /\ UNCHANGED vars

\* line 119: if (valid) valid--;
ThreadFail ==
    /\ tpc = "fail"
    /\ valid' = DecValid(valid)
    /\ tpc' = "log"
    /\ failsSince' = IF failsSince < MaxFails THEN failsSince + 1 ELSE failsSince
    /\ UNCHANGED <<humidity, temperature, mutex, await, final, stopReq>>
    /\ UNCHANGED <<cycles, checked, outcome, prevStore, everOk, published>>
    /\ UNCHANGED <<isrVars, lineVars, sensorVars, readerVars, armHist, readHist>>
    /\ UNCHANGED <<initVars, tickHist>>

\* line 120: pr_err(...)
ThreadLog ==
    /\ tpc = "log"
    /\ tpc' = "setAwait"
    /\ outcome' = "failure"
    /\ UNCHANGED <<await, final, stopReq>>
    /\ UNCHANGED <<cycles, checked, prevStore, failsSince, everOk, published>>
    /\ UNCHANGED <<isrVars, lineVars, sensorVars, storeVars, readerVars,
                   armHist, readHist>>
    /\ UNCHANGED <<initVars, tickHist>>

\* line 122: await = 2000/100
ThreadSetAwait ==
    /\ tpc = "setAwait"
    /\ await' = AWAIT
    /\ tpc' = "loop"
    /\ outcome' = "none"
    /\ checked' = Zeroes
    /\ prevStore' = [valid |-> 0, humidity |-> 0, temperature |-> 0]
    /\ dataAtArm' = Zeroes /\ armPos' = 0 /\ capBits' = 0 /\ capDone' = FALSE
    /\ UNCHANGED <<final, stopReq>>
    /\ UNCHANGED <<cycles, failsSince, everOk, published>>
    /\ UNCHANGED <<bitsSinceArm, doneSinceArm>>
    /\ UNCHANGED <<isrVars, lineVars, sensorVars, storeVars, readerVars, readHist>>
    /\ UNCHANGED <<initVars, tickHist>>

\* doexit, line 228: kthread_stop(thread) makes kthread_should_stop() true
RequestStop ==
    /\ ~stopReq
    /\ stopReq' = TRUE
    /\ UNCHANGED <<tpc, await, final>>
    /\ UNCHANGED <<isrVars, lineVars, sensorVars, storeVars, readerVars,
                   cycleHist, armHist, readHist>>
    /\ UNCHANGED <<initVars, tickHist>>


(***************************************************************************)
(* doirq as actions.  An edge on the pin latches the interrupt; the        *)
(* handler is entered when it is latched and no invocation is running.     *)
(***************************************************************************)
\* the whole of doirq, lines 42-75, with nothing running in between
IrqRun ==
    /\ irqPending /\ irqpc = "idle"
    /\ irqPending' = FALSE
    /\ LET s == IrqHandler(Isr, pin, clock)
       IN  /\ state' = s.state /\ data' = s.data /\ edge' = s.edge
           /\ bit' = s.bit /\ nominal' = s.nominal
    /\ bitsSinceArm' = bitsSinceArm + (IF WritesBit(state, pin) THEN 1 ELSE 0)
    /\ doneSinceArm' = (doneSinceArm \/ EndsFrame(state, Isr, pin))
    /\ UNCHANGED <<pin, pinDir, clock, irqpc, irqNow, irqCase>>
    /\ UNCHANGED <<armPos, dataAtArm, capBits, capDone>>
    /\ UNCHANGED <<sensorVars, threadVars, storeVars, readerVars, cycleHist, readHist>>
    /\ UNCHANGED <<initVars, tickHist>>

\* lines 42-45: if (state) { u64 now = ktime_get_ns();
IrqTest ==
    /\ irqPending /\ irqpc = "idle"
    /\ irqPending' = FALSE
    /\ irqpc' = IF state # 0 THEN "switch" ELSE "idle"
    /\ irqNow' = IF state # 0 THEN clock ELSE irqNow
    /\ UNCHANGED <<pin, pinDir, clock, irqCase>>
    /\ UNCHANGED <<isrVars, sensorVars, threadVars, storeVars, readerVars,
                   cycleHist, armHist, readHist>>
    /\ UNCHANGED <<initVars, tickHist>>

\* line 46: switch(state), a second read of the volatile
IrqSwitch ==
    /\ irqpc = "switch"
    /\ irqCase' = IF state \in 1..3 THEN state ELSE 0
    /\ irqpc' = IF state \in 1..3 THEN "body" ELSE "idle"
    /\ irqNow' = IF state \in 1..3 THEN irqNow ELSE 0
    /\ UNCHANGED <<pin, pinDir, clock, irqPending>>
    /\ UNCHANGED <<isrVars, sensorVars, threadVars, storeVars, readerVars,
                   cycleHist, armHist, readHist>>
    /\ UNCHANGED <<initVars, tickHist>>

\* lines 48-72: the case chosen by the switch
IrqBody ==
    /\ irqpc = "body"
    /\ irqpc' = "idle"
    /\ LET s == IrqCase(irqCase, Isr, pin, irqNow)
       IN  /\ state' = s.state /\ data' = s.data /\ edge' = s.edge
           /\ bit' = s.bit /\ nominal' = s.nominal
    /\ bitsSinceArm' = bitsSinceArm + (IF WritesBit(irqCase, pin) THEN 1 ELSE 0)
    /\ doneSinceArm' = (doneSinceArm \/ EndsFrame(irqCase, Isr, pin))
    /\ irqNow' = 0 /\ irqCase' = 0
    /\ UNCHANGED <<pin, pinDir, clock, irqPending>>
    /\ UNCHANGED <<armPos, dataAtArm, capBits, capDone>>
    /\ UNCHANGED <<sensorVars, threadVars, storeVars, readerVars, cycleHist, readHist>>
    /\ UNCHANGED <<initVars, tickHist>>

(***************************************************************************)
(* The sensor and the driver's wait.                                       *)
(***************************************************************************)
\* the thread has released the pin and is within udelay(40) or msleep(25)
InWindow == tpc \in {"arm", "wait"}

\* the wait is over and the first msleep(100) after it has not returned
AfterWait ==
    \/ tpc \in {"capture", "disarm", "validate", "lock", "publish", "unlock",
                "fail", "log", "setAwait"}
    \/ tpc \in {"loop", "sleep"} /\ await = AWAIT

\* the sensor's next edge; the edges are at least 28 us apart, so the handler
\* has returned from the one before
SendEdge ==
    /\ pinDir = "in"
    /\ spos <= LastEdge
    /\ LineQuiet
    /\ \/ tpc = "arm" /\ spos < MaxEarlyEdges
       \/ tpc = "wait"
       \/ AfterWait /\ late < MaxLateEdges
    /\ pin' = EdgeLevel(spos)
    /\ clock' = EdgeTime(sframe', spos, clock)
    /\ irqPending' = TRUE
    /\ spos' = spos + 1
    /\ late' = IF InWindow THEN late ELSE late + 1
    /\ UNCHANGED <<glitches, pinDir, irqpc, irqNow, irqCase>>

\* the sensor starts to answer the trigger with frame f: edge 0
SensorStart(f) ==
    /\ InWindow
    /\ sframe = 0
    /\ sframe' = f
    /\ SendEdge
    /\ UNCHANGED <<isrVars, threadVars, storeVars, readerVars,
                   cycleHist, armHist, readHist>>
    /\ UNCHANGED <<initVars, tickHist>>

\* every further edge of the response
SensorEdge ==
    /\ sframe # 0
    /\ sframe' = sframe
    /\ SendEdge
    /\ UNCHANGED <<isrVars, threadVars, storeVars, readerVars,
                   cycleHist, armHist, readHist>>
    /\ UNCHANGED <<initVars, tickHist>>

\* an interrupt at which gpio_get_value() finds the level it had at the
\* interrupt before: a pulse shorter than the time the handler takes to be
\* entered, while the decoder is armed
GlitchEdge ==
    /\ tpc = "wait"
    /\ pinDir = "in"
    /\ LineQuiet
    /\ glitches < MaxGlitches
    /\ glitches' = glitches + 1
    /\ irqPending' = TRUE
    /\ clock' = clock + GlitchGap
    /\ UNCHANGED <<sframe, spos, late, pin, pinDir, irqpc, irqNow, irqCase>>
    /\ UNCHANGED <<isrVars, threadVars, storeVars, readerVars,
                   cycleHist, armHist, readHist, tickHist, initVars>>

\* how far the response may have got when msleep(25) returns: nothing at all,
\* the first edges, the first byte, all but the last bit, everything
TimeoutPoints == {0, 1, 2, 3, 4, 19, LastEdge - 1, LastEdge, LastEdge + 1}

\* line 102: msleep(25) returns
ThreadWaitEnd ==
    /\ tpc = "wait"
    /\ spos \in TimeoutPoints
    /\ tpc' = "capture"
    /\ UNCHANGED <<await, final, stopReq>>
    /\ UNCHANGED <<isrVars, lineVars, sensorVars, storeVars, readerVars,
                   cycleHist, armHist, readHist>>
    /\ UNCHANGED <<initVars, tickHist>>

\* the numbers of edges a response may consist of in Spec: none, the first
\* three, all but the last data bit, the whole response
BurstLengths == {0, 3, LastEdge - 1, LastEdge + 1}

\* line 102: msleep(25), during which the sensor sends the first k edges of
\* frame f and the handler runs on each of them
ThreadWaitBurst(f, k) ==
    /\ tpc = "wait"
    /\ LineQuiet
    /\ tpc' = "capture"
    /\ \E r \in {RunEdges([isr |-> Isr, t |-> clock, n |-> bitsSinceArm,
                           fin |-> doneSinceArm], f, 0, k - 1)} :
           /\ state' = r.isr.state /\ data' = r.isr.data /\ edge' = r.isr.edge
           /\ bit' = r.isr.bit /\ nominal' = r.isr.nominal
           /\ bitsSinceArm' = r.n
           /\ doneSinceArm' = r.fin
           /\ clock' = r.t
    /\ sframe' = IF k > 0 THEN f ELSE 0
    /\ spos' = k
    /\ pin' = IF k > 0 THEN EdgeLevel(k - 1) ELSE pin
    /\ UNCHANGED <<late, glitches, pinDir, irqPending, irqpc, irqNow, irqCase>>
    /\ UNCHANGED <<await, final, stopReq, armPos, dataAtArm, capBits, capDone>>
    /\ UNCHANGED <<storeVars, readerVars, cycleHist, readHist>>
    /\ UNCHANGED <<initVars, tickHist>>

(***************************************************************************)
(* doopen, doread, doclose on one open file.  Characters are their codes;  *)
(* priv holds the bytes of the string written to filp->private_data, its   *)
(* terminating NUL included.                                               *)
(***************************************************************************)
RECURSIVE Digits(_)
Digits(n) == IF n < 10 THEN <<48 + n>> ELSE Append(Digits(n \div 10), 48 + (n % 10))

\* what sprintf(buf, "%d %d\n", h, t) writes, NUL included
Sprintf(h, t) == Digits(h) \o <<32>> \o Digits(t) \o <<10, 0>>

\* strlen(p)
RECURSIVE Strlen(_)
Strlen(p) == IF p = <<>> \/ Head(p) = 0 THEN 0 ELSE 1 + Strlen(Tail(p))

\* faulty variant: the test is missing
NoReadingNever(v) == FALSE

\* line 150: !valid
NoReading(v) == v = 0

\* the lengths a caller passes to read() in SpecRead
ReadLengths == {4, MAXS}

\* lines 130-136: doopen; the file position starts at 0
ReaderOpen ==
    /\ ~opened /\ rpc = "idle"
    /\ opened' = TRUE
    /\ priv' = <<0>>
    /\ ofs' = 0
    /\ ret' = 0
    /\ rbuf' = <<>>
    /\ UNCHANGED <<rpc, rlen, rn>>
    /\ UNCHANGED <<isrVars, lineVars, sensorVars, threadVars, storeVars,
                   cycleHist, armHist, readHist>>
    /\ UNCHANGED <<initVars, tickHist>>

\* lines 143-150: doread is entered with a buffer of len bytes.  At *ofs # 0
\* it serves the rest of the string; at *ofs = 0 it tests valid.
ReadEnter(len) ==
    /\ opened /\ rpc = "idle"
    /\ rlen' = len
    /\ IF ofs # 0
       THEN /\ rn' = Strlen(priv) - ofs
            /\ rpc' = IF Strlen(priv) - ofs <= 0 THEN "idle" ELSE "copy"
            /\ ret' = 0
            /\ rseen' = NoneSeen
       ELSE /\ rn' = 0
            /\ rpc' = IF NoReading(valid) THEN "idle" ELSE "lock"
            /\ ret' = IF NoReading(valid) THEN -EINVAL ELSE 0
            /\ rseen' = SeenNow
    /\ rbuf' = <<>>
    /\ UNCHANGED <<opened, ofs, priv, rpub, rall>>
    /\ UNCHANGED <<isrVars, lineVars, sensorVars, threadVars, storeVars,
                   cycleHist, armHist>>
    /\ UNCHANGED <<initVars, tickHist>>

\* line 151: mutex_lock(&mutex)
ReadLock ==
    /\ rpc = "lock"
    /\ mutex = "none"
    /\ mutex' = "reader"
    /\ rpc' = "format"
    /\ UNCHANGED <<valid, humidity, temperature>>
    /\ UNCHANGED <<opened, ofs, priv, rlen, rn, ret, rbuf>>
    /\ UNCHANGED <<isrVars, lineVars, sensorVars, threadVars,
                   cycleHist, armHist, readHist>>
    /\ UNCHANGED <<initVars, tickHist>>

\* line 152: n = sprintf(filp->private_data, "%d %d\n", humidity, temperature) + 1
ReadFormat ==
    /\ rpc = "format"
    /\ priv' = Sprintf(humidity, temperature)
    /\ rn' = (Len(Sprintf(humidity, temperature)) - 1) + 1
    /\ rpc' = "unlock"
    /\ rpub' = published
    /\ UNCHANGED <<opened, ofs, rlen, ret, rbuf, rseen, rall>>
    /\ UNCHANGED <<isrVars, lineVars, sensorVars, threadVars, storeVars,
                   cycleHist, armHist>>
    /\ UNCHANGED <<initVars, tickHist>>

\* line 153: mutex_unlock(&mutex)
ReadUnlock ==
    /\ rpc = "unlock"
    /\ mutex' = "none"
    /\ rpc' = "copy"
    /\ UNCHANGED <<valid, humidity, temperature>>
    /\ UNCHANGED <<opened, ofs, priv, rlen, rn, ret, rbuf>>
    /\ UNCHANGED <<isrVars, lineVars, sensorVars, threadVars,
                   cycleHist, armHist, readHist>>
    /\ UNCHANGED <<initVars, tickHist>>

\* lines 155-158: the copy to the caller's buffer, which is writable
\* (copy_to_user returns 0), and the return
ReadCopy ==
    /\ rpc = "copy"
    /\ LET n == IF rn > rlen THEN rlen ELSE rn
       IN  /\ rbuf' = SubSeq(priv, ofs + 1, ofs + n)
           /\ ofs' = ofs + n
           /\ ret' = n
           /\ rall' = rall \o SubSeq(priv, ofs + 1, ofs + n)
    /\ rpc' = "idle"
    /\ UNCHANGED <<opened, priv, rlen, rn>>
    /\ UNCHANGED <<isrVars, lineVars, sensorVars, threadVars, storeVars,
                   cycleHist, armHist, rseen, rpub>>
    /\ UNCHANGED <<initVars, tickHist>>

\* lines 162-166: doclose
ReaderClose ==
    /\ opened /\ rpc = "idle"
    /\ opened' = FALSE
    /\ priv' = <<>>
    /\ ofs' = 0
    /\ rlen' = 0 /\ rn' = 0 /\ ret' = 0 /\ rbuf' = <<>>
    /\ rseen' = NoneSeen
    /\ rpub' = [humidity |-> 0, temperature |-> 0]
    /\ rall' = <<>>
    /\ UNCHANGED rpc
    /\ UNCHANGED <<isrVars, lineVars, sensorVars, threadVars, storeVars,
                   cycleHist, armHist>>
    /\ UNCHANGED <<initVars, tickHist>>

(***************************************************************************)
(* doinit, lines 187-224.  Each call that acquires a resource succeeds or  *)
(* fails; acq lists the resources acquired, freed those released, in       *)
(* order.  A failed kthread_run() returns an error pointer in the kernel;  *)
(* the code tests for a null pointer, so both results are provided.        *)
(***************************************************************************)
\* the state when the module is loaded, before doinit runs
InitBoot ==
    /\ Globals
    /\ ipc = "gpio" /\ iret = 0 /\ ifail = "none"
    /\ acq = <<>> /\ freed = <<>> /\ thread = "none"

IrqResults == {"ok", "noirq", "refused"}
ThreadResults == {"running", "null", "errptr"}

\* line 217: !thread
ThreadIsNull(t) == t = "null"

\* lines 191-195: gpio_request
InitGpio(ok) ==
    /\ ipc = "gpio"
    /\ IF ok
       THEN /\ acq' = Append(acq, "gpio")
            /\ ipc' = "misc"
            /\ UNCHANGED <<iret, ifail>>
       ELSE /\ ifail' = "gpio"
            /\ iret' = -EINVAL
            /\ ipc' = "returned"
            /\ UNCHANGED acq
    /\ UNCHANGED <<freed, thread>>
    /\ UNCHANGED <<isrVars, lineVars, sensorVars, threadVars, storeVars, readerVars,
                   cycleHist, armHist, readHist, tickHist>>

\* lines 197-201: mutex_init; misc_register
InitMisc(ok) ==
    /\ ipc = "misc"
    /\ IF ok
       THEN /\ acq' = Append(acq, "misc")
            /\ ipc' = "irq"
            /\ UNCHANGED ifail
       ELSE /\ ifail' = "misc"
            /\ ipc' = "rmgpio"
            /\ UNCHANGED acq
    /\ UNCHANGED <<iret, freed, thread>>
    /\ UNCHANGED <<isrVars, lineVars, sensorVars, threadVars, storeVars, readerVars,
                   cycleHist, armHist, readHist, tickHist>>

\* lines 207-210: irq = gpio_to_irq(gpio); irq <= 0 || request_irq(...) < 0
InitIrq(r) ==
    /\ ipc = "irq"
    /\ IF r = "ok"
       THEN /\ acq' = Append(acq, "irq")
            /\ ipc' = "thread"
            /\ UNCHANGED ifail
       ELSE /\ ifail' = "irq"
            /\ ipc' = "rmmisc"
            /\ UNCHANGED acq
    /\ UNCHANGED <<iret, freed, thread>>
    /\ UNCHANGED <<isrVars, lineVars, sensorVars, threadVars, storeVars, readerVars,
                   cycleHist, armHist, readHist, tickHist>>

\* lines 216-223: thread = kthread_run(...); if (!thread) ...; return 0
InitThread(r) ==
    /\ ipc = "thread"
    /\ thread' = r
    /\ acq' = IF r = "running" THEN Append(acq, "thread") ELSE acq
    /\ ifail' = IF r = "running" THEN ifail ELSE "thread"
    /\ IF ThreadIsNull(r)
       THEN /\ ipc' = "rmmisc"
            /\ UNCHANGED iret
       ELSE /\ ipc' = "returned"
            /\ iret' = 0
    /\ UNCHANGED freed
    /\ UNCHANGED <<isrVars, lineVars, sensorVars, threadVars, storeVars, readerVars,
                   cycleHist, armHist, readHist, tickHist>>

\* lines 211-213: rmmisc: misc_deregister(&miscdev); goto rmgpio
InitRmMisc ==
    /\ ipc = "rmmisc"
    /\ freed' = Append(freed, "misc")
    /\ ipc' = "rmgpio"
    /\ UNCHANGED <<iret, ifail, acq, thread>>
    /\ UNCHANGED <<isrVars, lineVars, sensorVars, threadVars, storeVars, readerVars,
                   cycleHist, armHist, readHist, tickHist>>

\* lines 202-204: rmgpio: gpio_free(gpio); return -EINVAL
InitRmGpio ==
    /\ ipc = "rmgpio"
    /\ freed' = Append(freed, "gpio")
    /\ iret' = -EINVAL
    /\ ipc' = "returned"
    /\ UNCHANGED <<ifail, acq, thread>>
    /\ UNCHANGED <<isrVars, lineVars, sensorVars, threadVars, storeVars, readerVars,
                   cycleHist, armHist, readHist, tickHist>>

(***************************************************************************)
(* The specifications.                                                     *)
(***************************************************************************)
ThreadStep ==
    \/ ThreadLoop \/ ThreadSleep \/ ThreadPrime \/ ThreadTrigLow
    \/ ThreadTrigRelease \/ ThreadArm \/ ThreadCapture \/ ThreadDisarm
    \/ ThreadValidate \/ ThreadLock \/ ThreadPublish \/ ThreadUnlock
    \/ ThreadFail \/ ThreadLog \/ ThreadSetAwait

\* the thread on one processor with the handler, the sensor answering in
\* bursts
Next ==
    \/ ThreadStep
    \/ \E f \in 1..NumFrames : \E k \in BurstLengths : ThreadWaitBurst(f, k)
    \/ IrqRun

Spec == Init /\ [][Next]_vars

\* Spec with its scheduling: msleep(), mdelay() and udelay() return and the
\* thread goes on, and a latched interrupt is served
WaitBurst ==
    \E f \in 1..NumLiveFrames : \E k \in BurstLengths : ThreadWaitBurst(f, k)

NextLive == ThreadStep \/ WaitBurst \/ IrqRun

SpecLive ==
    /\ Init /\ [][NextLive]_vars
    /\ WF_vars(ThreadStep) /\ WF_vars(WaitBurst) /\ WF_vars(IrqRun)

\* the thread and the handler on two processors, the sensor sending edge by
\* edge, for MaxCycles acquisition cycles
ThreadPrimeBounded == cycles < MaxCycles /\ ThreadPrime

NextRace ==
    \/ ThreadLoop \/ ThreadSleep \/ ThreadPrimeBounded \/ ThreadTrigLow
    \/ ThreadTrigRelease \/ ThreadArm \/ ThreadWaitEnd \/ ThreadCapture
    \/ ThreadDisarm \/ ThreadValidate \/ ThreadLock \/ ThreadPublish
    \/ ThreadUnlock \/ ThreadFail \/ ThreadLog \/ ThreadSetAwait
    \/ \E f \in 1..NumRaceFrames : SensorStart(f)
    \/ SensorEdge
    \/ IrqTest \/ IrqSwitch \/ IrqBody

SpecRace == Init /\ [][NextRace]_vars

\* SpecLive's steps with doexit's kthread_stop() at any moment
NextTick == NextLive \/ RequestStop

SpecTick == Init /\ [][NextTick]_vars

\* doinit from the loading of the module, and the driver once it runs
Running == ipc = "returned" /\ iret = 0 /\ thread = "running"

NextInit ==
    \/ \E ok \in BOOLEAN : InitGpio(ok)
    \/ \E ok \in BOOLEAN : InitMisc(ok)
    \/ \E r \in IrqResults : InitIrq(r)
    \/ \E r \in ThreadResults : InitThread(r)
    \/ InitRmMisc
    \/ InitRmGpio
    \/ Running /\ NextLive

SpecInit == InitBoot /\ [][NextInit]_vars

\* the first acquisition cycle with the thread and the handler on two
\* processors, the sensor's response and interrupts that are not its edges
ThreadFirstPrime == cycles = 0 /\ ThreadPrime

NextEdges ==
    \/ ThreadLoop \/ ThreadSleep \/ ThreadFirstPrime \/ ThreadTrigLow
    \/ ThreadTrigRelease \/ ThreadArm \/ ThreadWaitEnd \/ ThreadCapture
    \/ ThreadDisarm \/ ThreadValidate \/ ThreadLock \/ ThreadPublish
    \/ ThreadUnlock \/ ThreadFail \/ ThreadLog \/ ThreadSetAwait
    \/ SensorStart(1)
    \/ SensorEdge
    \/ GlitchEdge
    \/ IrqTest \/ IrqSwitch \/ IrqBody

SpecEdges == Init /\ [][NextEdges]_vars

\* SpecRace with doexit's kthread_stop() at any moment
HandlerStep == IrqTest \/ IrqSwitch \/ IrqBody

ThreadRaceStep ==
    \/ ThreadLoop \/ ThreadSleep \/ ThreadPrimeBounded \/ ThreadTrigLow
    \/ ThreadTrigRelease \/ ThreadArm \/ ThreadWaitEnd \/ ThreadCapture
    \/ ThreadDisarm \/ ThreadValidate \/ ThreadLock \/ ThreadPublish
    \/ ThreadUnlock \/ ThreadFail \/ ThreadLog \/ ThreadSetAwait

NextStop ==
    \/ ThreadRaceStep
    \/ \E f \in 1..NumStopFrames : SensorStart(f)
    \/ SensorEdge
    \/ HandlerStep
    \/ RequestStop

SpecStop == Init /\ [][NextStop]_vars

\* the thread and a reader of /dev/dht11; the sensor answers with a whole
\* frame or not at all
ReadBurstLengths == {0, LastEdge + 1}

NextRead ==
    \/ ThreadStep
    \/ \E f \in 1..NumReadFrames : \E k \in ReadBurstLengths : ThreadWaitBurst(f, k)
    \/ IrqRun
    \/ ReaderOpen
    \/ \E len \in ReadLengths : ReadEnter(len)
    \/ ReadLock \/ ReadFormat \/ ReadUnlock \/ ReadCopy
    \/ ReaderClose

SpecRead == Init /\ [][NextRead]_vars

(***************************************************************************)
(* Properties.                                                             *)
(***************************************************************************)
\* the frame check as the specification states it
SpecValid(f) ==
    /\ (f[0] + f[1] + f[2] + f[3]) % 256 = f[4]
    /\ f[1] <= 9
    /\ f[3] <= 9

SuccessPcs == {"lock", "publish", "unlock"}

\* C1: armed in state 1 before the rising edge of the ack high, the decoder
\* that has received every edge up to the falling edge of the 40th bit is in
\* state 0 and data[0..4] is the frame sent, first bit in the top bit of
\* data[0], whatever data held when it was armed.
C1_DecodesFrame ==
    (tpc = "wait" /\ armPos <= 1 /\ spos >= LastEdge /\ LineQuiet)
        => (state = 0 /\ data = Frame(sframe))

\* C1's case: a whole response decoded over the remains of another frame
C1_Witness ==
    /\ tpc = "wait" /\ armPos <= 1 /\ spos = LastEdge /\ LineQuiet
    /\ dataAtArm # Zeroes /\ dataAtArm # Frame(sframe)
    /\ state = 0 /\ data = Frame(sframe)

\* C2: when the captured terminal state is 0, the thread takes the publish
\* branch exactly if the frame's checksum is right and both fraction bytes are
\* at most 9, and the failure branch otherwise.
C2_PublishIffValid ==
    (tpc \in {"lock", "fail"} /\ final = 0)
        => ((tpc = "lock") <=> SpecValid(checked))

\* C2's case: a complete frame with a right checksum refused for its fraction
C2_Witness ==
    /\ tpc = "fail" /\ final = 0
    /\ (checked[0] + checked[1] + checked[2] + checked[3]) % 256 = checked[4]
    /\ checked[1] > 9

\* C3: after a successful cycle the store holds humidity = frame[0]*10 +
\* frame[1] and temperature = frame[2]*10 + frame[3] of the frame validated in
\* that cycle, and valid = 5.
C3_PublishedReading ==
    (tpc = "setAwait" /\ outcome = "success")
        => /\ humidity = (checked[0] * 10) + checked[1]
           /\ temperature = (checked[2] * 10) + checked[3]
           /\ valid = MAXVALID

\* C3's case: a success whose humidity and temperature differ
C3_Witness ==
    /\ tpc = "setAwait" /\ outcome = "success"
    /\ checked = Frame(1) /\ humidity # temperature

\* C4, as stated: the frame 41 02 17 03 5D is published as 412 and 173 tenths
\* with valid = 5.
C4_Scenario412 ==
    (tpc = "setAwait" /\ final = 0 /\ checked = Frame(1))
        => (outcome = "success" /\ humidity = 412 /\ temperature = 173
            /\ valid = MAXVALID)

\* C4, amended: the frame 41 02 17 03 5D (65, 2, 23, 3, 93) is published as
\* 652 and 233 tenths with valid = 5.
C4_Scenario652 ==
    (tpc = "setAwait" /\ final = 0 /\ checked = Frame(1))
        => (outcome = "success" /\ humidity = 652 /\ temperature = 233
            /\ valid = MAXVALID)

\* C4's case: the cycle that completed with that frame has ended
C4_Witness ==
    /\ tpc = "setAwait" /\ final = 0 /\ checked = Frame(1)
    /\ checked[0] = 65 /\ checked[4] = 93 /\ outcome = "success"

\* C5: the thread is on the publish branch only if, between arming and the
\* capture of the terminal state, the handler appended exactly 40 bits and
\* itself set state = 0.
C5_PublishNeedsFullFrame ==
    tpc \in SuccessPcs => (final = 0 /\ capDone /\ capBits = NBITS)

\* C5's case: a publish in the cycle after one that failed and left bits
C5_Witness ==
    /\ tpc = "publish" /\ capDone /\ capBits = NBITS
    /\ failsSince = 1 /\ dataAtArm # Zeroes /\ dataAtArm # data

\* C6: a failed cycle leaves humidity and temperature as they were before the
\* cycle and valid one less, or 0 if it was 0.
C6_FailureKeepsReading ==
    (tpc = "setAwait" /\ outcome = "failure")
        => /\ humidity = prevStore.humidity
           /\ temperature = prevStore.temperature
           /\ valid = IF prevStore.valid = 0 THEN 0 ELSE prevStore.valid - 1

\* C6's case: a complete frame refused while a reading is stored
C6_Witness ==
    /\ tpc = "setAwait" /\ outcome = "failure" /\ final = 0
    /\ prevStore.valid = MAXVALID /\ valid = MAXVALID - 1 /\ humidity = 652

\* C7: valid is in 0..5; it is 0 until the first success; after a success
\* and N failed cycles in a row it is max(0, 5 - N).
C7_ValidityDecay ==
    /\ valid \in 0..MAXVALID
    /\ ~everOk => valid = 0
    /\ everOk => valid = IF failsSince >= MAXVALID THEN 0 ELSE MAXVALID - failsSince

\* C7's case: the sixth failure in a row after a success
C7_Witness ==
    everOk /\ failsSince = MAXVALID + 1 /\ valid = 0 /\ tpc = "setAwait"

\* a read at offset 0 has just returned
ReadReturned == opened /\ rpc = "idle" /\ rseen.at0

\* the reader executes the test of line 150
ReadTest == ofs = 0 /\ \E len \in ReadLengths : ReadEnter(len)

\* C8: a read at offset 0 that finds valid = 0 returns an error and delivers
\* nothing; one that finds valid > 0 delivers the text of the reading last
\* published, however many cycles have failed since.
C8_ReadAtZero ==
    ReadReturned =>
        IF rseen.valid = 0
        THEN ret = -EINVAL /\ rbuf = <<>>
        ELSE LET text == Sprintf(rpub.humidity, rpub.temperature)
             IN  /\ ret = (IF Len(text) > rlen THEN rlen ELSE Len(text))
                 /\ rbuf = SubSeq(text, 1, ret)

\* C8's case: a read served when four cycles have failed since the publish
C8_Witness ==
    /\ ReadReturned /\ rseen.valid = 1 /\ ret > 0
    /\ rpub.humidity = 652 /\ Head(rbuf) = 54

\* C9: every access to valid, humidity or temperature, by the thread's
\* publish and failure branches and by doread, is made by a context that
\* holds the mutex.
C9_StoreUnderMutex ==
    [][ /\ (ThreadPublish \/ ThreadFail) => mutex = "thread"
        /\ (ReadFormat \/ ReadTest) => mutex = "reader" ]_vars

\* C10: the valid a read acted on and the humidity and temperature it formats
\* are the store's contents at one instant, and nothing is formatted while
\* valid is 0.
C10_ReadSnapshot ==
    [][ ReadFormat => /\ valid = rseen.valid
                      /\ humidity = rseen.humidity
                      /\ temperature = rseen.temperature
                      /\ valid > 0 ]_vars

\* the thread is between its disarm (line 104) and its next arm (line 101)
Disarmed == tpc \notin {"wait", "capture", "disarm"}

\* C11: from the thread's disarm until its next arm, whatever the handler was
\* doing when state = 0 was written, state stays 0 and the handler writes
\* nothing to data.
C11_QuietAfterDisarm ==
    [][ Disarmed' => (state' = 0 /\ (Disarmed => data' = data)) ]_vars

\* C12: an edge handled while state is 0 changes none of state, data, edge,
\* bit and nominal; and writing state = 0 when it is 0 already changes nothing.
C12_IdleIgnoresEdges ==
    [][ /\ (IrqRun /\ state = 0) => UNCHANGED isrVars
        /\ ((ThreadPrime \/ ThreadDisarm) /\ state = 0) => UNCHANGED isrVars ]_vars

\* C12's case: the edge of the pin's release has been handled in state 0,
\* with the decoder left in mid-frame by the cycle before, and state = 0 has
\* been written twice since that frame
C12_Witness ==
    /\ tpc = "arm" /\ ~irqPending /\ pin = 1
    /\ state = 0 /\ bit = NBITS - 1 /\ data # Zeroes

\* C13: a wait during which no edge arrives, or too few for 40 bits, still
\* ends: the state captured is not 0 (it is 1 if no edge arrived at all), the
\* thread disarms, takes the failure branch and sets the delay to the next
\* cycle; and after every wait, whatever its outcome, the loop goes on.
C13_TimeoutCompletes ==
    /\ [](tpc = "disarm" => /\ capBits < NBITS => final # 0
                            /\ spos = 0 => final = 1)
    /\ (tpc = "disarm" /\ final # 0)
           ~> (tpc = "setAwait" /\ outcome = "failure")
    /\ (tpc = "wait") ~> (tpc = "sleep" /\ await = AWAIT)

\* C13's case: a cycle in which the sensor sent nothing has ended in failure
C13_Witness ==
    /\ tpc = "setAwait" /\ outcome = "failure"
    /\ spos = 0 /\ final = 1

\* C14: once kthread_should_stop() is true the thread's next test of it ends
\* the loop, so the thread terminates after the iteration in progress; when
\* it has terminated state is 0 and the pin is an input.
C14_StopLeavesIdle ==
    /\ [][(ThreadLoop /\ stopReq) => tpc' = "done"]_vars
    /\ [](tpc = "done" => (state = 0 /\ pinDir = "in"))

\* C15: the thread holds the mutex only from mutex_lock to mutex_unlock
\* around its three assignments, never while it sleeps, delays, triggers the
\* sensor or waits for the response; a reader holds it only around sprintf;
\* the handler never changes it.
C15_MutexScope ==
    /\ [](/\ mutex = "thread" <=> tpc \in {"publish", "unlock"}
          /\ mutex = "reader" <=> rpc \in {"format", "unlock"})
    /\ [][IrqRun => mutex' = mutex]_vars

\* C15's case: the thread inside its critical section, a reader waiting
C15_Witness ==
    mutex = "thread" /\ tpc = "unlock" /\ rpc = "lock" /\ valid = MAXVALID

RECURSIVE Reverse(_)
Reverse(q) == IF q = <<>> THEN <<>> ELSE Append(Reverse(Tail(q)), Head(q))

\* C16: when an acquisition of doinit has failed, doinit returns an error and
\* has released everything acquired before, last acquired first.
C16_InitUnwinds ==
    (ipc = "returned" /\ ifail # "none")
        => (iret # 0 /\ freed = Reverse(acq))

\* the text the specification describes: humidity, a space, temperature and
\* a newline
ReadingText(h, t) == Digits(h) \o <<32>> \o Digits(t) \o <<10>>

\* a read at an offset other than 0 has just returned 0
ReadAtEnd == opened /\ rpc = "idle" /\ ofs > 0 /\ ret = 0

\* C17: when a read returns 0, the bytes delivered by the reads since offset
\* 0 are the decimal humidity, one space, the decimal temperature and one
\* newline, and no byte more.
C17_ReadDeliversText ==
    ReadAtEnd => rall = ReadingText(rpub.humidity, rpub.temperature)

\* C18: case 2 sets edge, resets bit and enters state 3 only when the pin
\* reads low, and an invocation that reads it high leaves state 2; case 1
\* enters state 2 only when the pin reads high.
C18_AdvanceByLevel ==
    [][ IrqBody => /\ (irqCase = 2 /\ pin = 1) => UNCHANGED isrVars
                   /\ (irqCase = 2 /\ state' = 3) => pin = 0
                   /\ (irqCase = 1 /\ state' = 2) => pin = 1 ]_vars

\* C19: whenever state is 3, bit is in 0..39, and every write of the handler
\* to data has an index bit/8 in 0..4.
C19_BitInFrame ==
    /\ [](state = 3 => bit \in 0..(NBITS - 1))
    /\ [][(IrqBody /\ WritesBit(irqCase, pin)) => (bit \div 8) \in 0..4]_vars

\* C19's case: the decoder before the last bit of a response during which an
\* interrupt that was not an edge was served
C19_Witness ==
    state = 3 /\ bit = NBITS - 1 /\ glitches = 1 /\ tpc = "wait"

\* C20: the first cycle begins after the first msleep(100) of the thread,
\* every later cycle after exactly 20 of them since the cycle before began,
\* and kthread_should_stop() is tested once between two of them.
C20_TickSchedule ==
    [][ /\ ThreadPrime => ticks = (IF cycles = 0 THEN 1 ELSE AWAIT)
        /\ ThreadSleep => tests = 1 ]_vars

\* C20's case: the twentieth tick after a cycle has passed and the next
\* cycle is about to begin
C20_Witness ==
    tpc = "prime" /\ cycles >= 1 /\ ticks = AWAIT /\ tests = 0 /\ await = 0

=============================================================================
